---- MODULE Spec2Model ----
(***************************************************************************)
(* A model of pyNSRDB: request assembly (requests.py), the credential      *)
(* resolver (credentials.py), the response handler with its poll loop      *)
(* (response.py) and the download/unpack step (data.py).                   *)
(*                                                                         *)
(* Python strings are TLA+ strings (Len, SubSeq and \o act on them          *)
(* character by character).  A Python value whose type the code inspects    *)
(* is a record [ty, s, n]: PyStr, PyInt, PyBool, PyNone.  A dict is a       *)
(* function from its keys.  A call's outcome is a record [exc, val]: exc    *)
(* is "none" when the call returns val and the exception's name otherwise.  *)
(***************************************************************************)
EXTENDS Integers, Sequences, FiniteSets, TLC

\* ------------------------------------------------------------------ bounds

\* Largest caller-supplied timeout (seconds) explored by the poll loop.
MaxTimeout == 6
\* Longest duration (seconds) of one download attempt.
MaxFetchSecs == 1
\* Most download attempts one call makes before the model stops following it.
MaxFetches == 3

\* time.sleep(5) between attempts
PollInterval == 5

\* ------------------------------------------------------- Python values

PyStr(s) == [ty |-> "str", s |-> s, n |-> 0]
PyInt(i) == [ty |-> "int", s |-> "", n |-> i]
PyBool(b) == [ty |-> "bool", s |-> "", n |-> IF b THEN 1 ELSE 0]
PyNone == [ty |-> "none", s |-> "", n |-> 0]
PyList(xs) == [ty |-> "list", items |-> xs]

Return(v) == [exc |-> "none", val |-> v]
Raise(e, v) == [exc |-> e, val |-> v]

EmptyDict == [k \in {} |-> PyNone]

\* d.update(e)
DictUpdate(d, e) ==
  [k \in DOMAIN d \cup DOMAIN e |-> IF k \in DOMAIN e THEN e[k] ELSE d[k]]

\* ------------------------------------------------------- Python strings

Min(a, b) == IF a < b THEN a ELSE b

CharAt(s, i) == SubSeq(s, i, i)

\* s[:n]
Prefix(s, n) == SubSeq(s, 1, Min(n, Len(s)))

\* s[n:] (0-based n)
Suffix(s, n) == SubSeq(s, n + 1, Len(s))

\* sub in s
Contains(s, sub) ==
  \E i \in 1..(Len(s) - Len(sub) + 1) : SubSeq(s, i, i + Len(sub) - 1) = sub

\* s.find(",") + 1, or 0 when s has no comma
FirstComma(s) ==
  IF Contains(s, ",")
  THEN CHOOSE i \in 1..Len(s) :
         /\ CharAt(s, i) = ","
         /\ \A j \in 1..(i - 1) : CharAt(s, j) # ","
  ELSE 0

RECURSIVE Split(_)
\* s.split(","): never empty; "" gives [""]
Split(s) ==
  IF FirstComma(s) = 0 THEN <<s>>
  ELSE <<SubSeq(s, 1, FirstComma(s) - 1)>> \o Split(Suffix(s, FirstComma(s)))

RECURSIVE Strip(_)
\* s.strip()
Strip(s) ==
  IF Len(s) = 0 THEN s
  ELSE IF CharAt(s, 1) = " " THEN Strip(Suffix(s, 1))
  ELSE IF CharAt(s, Len(s)) = " " THEN Strip(SubSeq(s, 1, Len(s) - 1))
  ELSE s

RECURSIVE Join(_)
\* ",".join(xs) for a sequence of strings
Join(xs) ==
  IF Len(xs) = 0 THEN ""
  ELSE IF Len(xs) = 1 THEN xs[1]
  ELSE xs[1] \o "," \o Join(Tail(xs))

Digit(d) == CharAt("0123456789", d + 1)

RECURSIVE NatStr(_)
NatStr(i) == IF i < 10 THEN Digit(i) ELSE NatStr(i \div 10) \o Digit(i % 10)

\* str(i) for an int
IntStr(i) == IF i < 0 THEN "-" \o NatStr(0 - i) ELSE NatStr(i)

Upper == "ABCDEFGHIJKLMNOPQRSTUVWXYZ"
Lowers == "abcdefghijklmnopqrstuvwxyz"

LowerChar(c) ==
  IF \E i \in 1..26 : CharAt(Upper, i) = c
  THEN CharAt(Lowers, CHOOSE i \in 1..26 : CharAt(Upper, i) = c)
  ELSE c

RECURSIVE Lower(_)
\* s.lower()
Lower(s) == IF Len(s) = 0 THEN s ELSE LowerChar(CharAt(s, 1)) \o Lower(Suffix(s, 1))

\* The elements of a sequence, as set(xs) gives them.
Range(xs) == {xs[i] : i \in 1..Len(xs)}

\* Every order in which a set's elements can be iterated.
Orderings(S) ==
  {f \in [1..Cardinality(S) -> S] : \A i, j \in 1..Cardinality(S) : f[i] = f[j] => i = j}

\* ------------------------------------------------- requests.py: _parse_inputs

\* Lines 30-31: str(names) for an int (a bool is an int too).
NamesStr(names) ==
  IF names.ty = "int" THEN IntStr(names.n)
  ELSE IF names.ty = "bool" THEN (IF names.n = 1 THEN "True" ELSE "False")
  ELSE names.s

\* Lines 30-38: the list the names argument is turned into.
NamesList(names) ==
  IF names.ty = "list" THEN names.items
  ELSE IF Contains(NamesStr(names), ",")
  THEN [i \in 1..Len(Split(NamesStr(names))) |-> PyStr(Strip(Split(NamesStr(names))[i]))]
  ELSE <<PyStr(NamesStr(names))>>

\* The normalizer filtering the list in place of intersecting sets: repeated
\* entries stay.
_parse_inputs_NoDedup(names, allowed_names) ==
  IF names.ty = "none" THEN {Raise("TypeError", "")}
  ELSE {Return(Join([i \in 1..Len(SelectSeq(NamesList(names),
                       LAMBDA x : allowed_names.ty = "none" \/ x \in Range(allowed_names.items))) |->
                     SelectSeq(NamesList(names),
                       LAMBDA x : allowed_names.ty = "none" \/ x \in Range(allowed_names.items))[i].s]))}

\* Lines 40-43.  allowed_names is PyNone or a PyList of PyStr.  The outcomes are
\* a set: iterating the intersection set gives its elements in any order.
_parse_inputs(names, allowed_names) ==
  IF names.ty = "none" THEN {Raise("TypeError", "")}
  ELSE IF allowed_names.ty = "none"
  THEN IF \E i \in 1..Len(NamesList(names)) : NamesList(names)[i].ty # "str"
       THEN {Raise("TypeError", "")}
       ELSE {Return(Join([i \in 1..Len(NamesList(names)) |-> NamesList(names)[i].s]))}
  ELSE {Return(Join([i \in 1..Len(o) |-> o[i].s])) :
          o \in Orderings(Range(NamesList(names)) \cap Range(allowed_names.items))}

\* ----------------------------------------------- requests.py: _parse_base_url

\* The selector with the geometry test left out.
_parse_base_url_NamesOnly(url, wkt, names) ==
  IF Len(Split(names)) = 1 THEN url \o ".csv" ELSE url \o ".json"

_parse_base_url(url, wkt, names) ==
  IF "POINT" = Prefix(wkt, 5) /\ Len(Split(names)) = 0
  THEN url \o ".csv"
  ELSE url \o ".json"

\* ------------------------------------- credentials.py: _get_user_credentials

\* The credential file ~/.pyNSRDB: [exists, entries], entries the KEY=value
\* lines in file order.
NoFile == [exists |-> FALSE, entries |-> <<>>]
FileOf(entries) == [exists |-> TRUE, entries |-> entries]

RECURSIVE LowerKeys(_)
\* {k.lower(): v for k, v in dotenv_values(config_file).items()}: a later
\* entry replaces an earlier one with the same key.
LowerKeys(entries) ==
  IF Len(entries) = 0 THEN EmptyDict
  ELSE DictUpdate(LowerKeys(SubSeq(entries, 1, Len(entries) - 1)),
                  [k \in {Lower(entries[Len(entries)][1])} |-> PyStr(entries[Len(entries)][2])])

CredentialFields == {"api_key", "full_name", "email", "affiliation", "reason", "mailing_list"}

\* The explicit arguments with the null ones kept.
Explicit_WithNulls(cred) == [k \in CredentialFields |-> cred[k]]

\* {k: v for k, v in items if v is not None}
Explicit(cred) ==
  [k \in {f \in CredentialFields : cred[f].ty # "none"} |-> cred[k]]

\* The resolver looking for the api_key after the explicit arguments are merged
\* in.
_get_user_credentials_KeyAfterMerge(file, cred) ==
  IF file.exists
  THEN IF "api_key" \notin DOMAIN DictUpdate(LowerKeys(file.entries), Explicit(cred))
       THEN Raise("ValueError", EmptyDict)
       ELSE Return(DictUpdate(LowerKeys(file.entries), Explicit(cred)))
  ELSE IF cred.api_key.ty = "none"
  THEN Raise("FileNotFoundError", EmptyDict)
  ELSE Raise("UnboundLocalError", EmptyDict)

\* cred is the record of the six arguments.  With no file and an api_key given,
\* line 51 binds config_file instead of user_config, so line 65 reads an
\* unbound local.
_get_user_credentials(file, cred) ==
  IF file.exists
  THEN IF "api_key" \notin DOMAIN LowerKeys(file.entries)
       THEN Raise("ValueError", EmptyDict)
       ELSE Return(DictUpdate(LowerKeys(file.entries), Explicit(cred)))
  ELSE IF cred.api_key.ty = "none"
  THEN Raise("FileNotFoundError", EmptyDict)
  ELSE Raise("UnboundLocalError", EmptyDict)

\* ------------------------------------------ requests.py: _parse_query_location

\* A location is [ty, pts]: a "tuple" or "list" holds numbers, a "Point",
\* "MultiPoint" or "Polygon" holds <<x, y>> pairs; any other ty is some other
\* Python object.
CoordStr(p) == IntStr(p[1]) \o " " \o IntStr(p[2])

RECURSIVE CoordList(_)
CoordList(pts) ==
  IF Len(pts) = 0 THEN ""
  ELSE IF Len(pts) = 1 THEN CoordStr(pts[1])
  ELSE CoordStr(pts[1]) \o ", " \o CoordList(Tail(pts))

\* shapely's geometry.wkt
GeomWkt(geom) ==
  IF geom.ty = "Point" THEN "POINT (" \o CoordList(geom.pts) \o ")"
  ELSE IF geom.ty = "MultiPoint" THEN "MULTIPOINT (" \o CoordList(geom.pts) \o ")"
  ELSE "POLYGON ((" \o CoordList(geom.pts) \o "))"

_parse_query_location(location) ==
  IF location.ty \in {"tuple", "list"}
  THEN IF Len(location.pts) < 2
       THEN Raise("IndexError", "")
       ELSE Return(GeomWkt([ty |-> "Point", pts |-> <<<<location.pts[1], location.pts[2]>>>>]))
  ELSE IF location.ty \in {"Point", "MultiPoint", "Polygon"}
  THEN Return(GeomWkt(location))
  ELSE Raise("ValueError", "")

\* ----------------------------------------- requests.py: _assemble_query_params

\* Lines 108-112.
process_bool(input) ==
  IF input.ty = "bool" THEN PyStr(IF input.n = 1 THEN "true" ELSE "false") ELSE input

\* Lines 95-116 once the credentials, the attributes string a and the names
\* string n are known (a and n are outcomes of _parse_inputs).
AssembleWith(uc, location, attributes, a, n, kwargs) ==
  IF a.exc # "none" THEN Raise(a.exc, EmptyDict)
  ELSE IF _parse_query_location(location).exc # "none"
  THEN Raise(_parse_query_location(location).exc, EmptyDict)
  ELSE IF n.exc # "none" THEN Raise(n.exc, EmptyDict)
  ELSE Return(
    [k \in DOMAIN DictUpdate(DictUpdate(DictUpdate(DictUpdate(
         IF attributes.ty = "none" THEN EmptyDict ELSE [j \in {"attributes"} |-> PyStr(a.val)],
         [j \in {"wkt"} |-> PyStr(_parse_query_location(location).val)]),
         uc),
         [j \in {"names"} |-> PyStr(n.val)]),
         kwargs)
     |-> process_bool(DictUpdate(DictUpdate(DictUpdate(DictUpdate(
         IF attributes.ty = "none" THEN EmptyDict ELSE [j \in {"attributes"} |-> PyStr(a.val)],
         [j \in {"wkt"} |-> PyStr(_parse_query_location(location).val)]),
         uc),
         [j \in {"names"} |-> PyStr(n.val)]),
         kwargs)[k])])

\* The utc argument is accepted and never read.  The outcomes are a set
\* because _parse_inputs leaves the order of its output open.
_assemble_query_params(file, location, attributes, allowed_attributes, names, allowed_names, utc, cred, kwargs) ==
  IF _get_user_credentials(file, cred).exc # "none"
  THEN {Raise(_get_user_credentials(file, cred).exc, EmptyDict)}
  ELSE {AssembleWith(_get_user_credentials(file, cred).val, location, attributes, a, n, kwargs) :
          a \in (IF attributes.ty = "none" THEN {Return("")}
                 ELSE _parse_inputs(attributes, allowed_attributes)),
          n \in _parse_inputs(names, allowed_names)}

\* ------------------------------------------- requests.py: the PSM_* functions

StrList(xs) == PyList([i \in 1..Len(xs) |-> PyStr(xs[i])])

\* [str(year) for year in range(lo, hi)]
Years(lo, hi) == [i \in 1..(hi - lo) |-> IntStr(lo + i - 1)]

PSM3_ATTRIBUTES ==
  <<"air_temperature", "clearsky_dhi", "clearsky_dni", "clearsky_ghi", "cloud_type",
    "dew_point", "dhi", "dni", "fill_flag", "ghi", "ghuv-280-400", "ghuv-285-385",
    "relative_humidity", "solar_zenith_angle", "surface_albedo", "surface_pressure",
    "total_precipitable_water", "wind_direction", "wind_speed">>

TMY_ATTRIBUTES ==
  <<"dhi", "dni", "ghi", "dew_point", "air_temperature", "surface_pressure",
    "wind_direction", "wind_speed", "surface_albedo">>

TMY_NAMES ==
  <<"tmy", "tmy-2017", "tdy-2017", "tgy-2017", "tmy-2018", "tdy-2018", "tgy-2018",
    "tmy-2019", "tdy-2019", "tgy-2019">>

TEMPORAL_ATTRIBUTES ==
  <<"air_temperature", "clearsky_dhi", "clearsky_dni", "clearsky_ghi", "cloud_type",
    "dew_point", "dhi", "dni", "fill_flag", "ghi", "relative_humidity",
    "solar_zenith_angle", "surface_albedo", "surface_pressure",
    "total_precipitable_water", "wind_direction", "wind_speed">>

\* The three request functions differ in their allow lists, their URL, whether
\* names=None selects the last allowed name, and whether leap_day and interval
\* are passed on as keyword arguments.
Endpoint(f) ==
  IF f = "PSM_request"
  THEN [ALLOWED_ATTRIBUTES |-> StrList(PSM3_ATTRIBUTES),
        ALLOWED_NAMES |-> StrList(Years(1998, 2020)),
        URL |-> "https://developer.nrel.gov/api/nsrdb/v2/solar/psm3-download",
        none_is_last |-> TRUE, extras |-> TRUE]
  ELSE IF f = "PSM_TMY_request"
  THEN [ALLOWED_ATTRIBUTES |-> StrList(TMY_ATTRIBUTES),
        ALLOWED_NAMES |-> StrList(TMY_NAMES),
        URL |-> "https://developer.nrel.gov/api/nsrdb/v2/solar/psm3-tmy-download",
        none_is_last |-> FALSE, extras |-> FALSE]
  ELSE [ALLOWED_ATTRIBUTES |-> StrList(TEMPORAL_ATTRIBUTES),
        ALLOWED_NAMES |-> StrList(Years(2018, 2020)),
        URL |-> "https://developer.nrel.gov/api/nsrdb/v2/solar/psm3-5min-download",
        none_is_last |-> TRUE, extras |-> TRUE]

RequestFunctions == {"PSM_request", "PSM_TMY_request", "PSM_temporal_request"}

\* if names is None: names = ALLOWED_NAMES[-1]
NamesOrLast(f, names) ==
  IF Endpoint(f).none_is_last /\ names.ty = "none"
  THEN Endpoint(f).ALLOWED_NAMES.items[Len(Endpoint(f).ALLOWED_NAMES.items)]
  ELSE names

\* leap_day=leap_day, interval=interval
Kwargs(f, a) ==
  IF Endpoint(f).extras
  THEN [k \in {"leap_day", "interval"} |->
          IF k = "leap_day" THEN PyBool(a.leap_day) ELSE PyInt(a.interval)]
  ELSE EmptyDict

\* A request function up to its HTTP GET: the outcomes of assembling the query
\* parameters, each with the URL _parse_base_url selects for it.  a is the
\* record of the call's arguments.
Prepare(f, file, a) ==
  {IF q.exc # "none" THEN Raise(q.exc, [query_params |-> EmptyDict, base_url |-> ""])
   ELSE Return([query_params |-> q.val,
                base_url |-> _parse_base_url(Endpoint(f).URL, q.val["wkt"].s,
                                             q.val["names"].s)]) :
     q \in _assemble_query_params(file, a.location, a.attributes,
                                  Endpoint(f).ALLOWED_ATTRIBUTES, NamesOrLast(f, a.names),
                                  Endpoint(f).ALLOWED_NAMES, a.utc, a.cred, Kwargs(f, a))}

\* ------------------------------------------------------------- data.py

\* A CSV payload is its sequence of rows, a row a sequence of cell strings.
\* pd.read_csv(input, nrows=1).iloc[0].to_dict(): row 1 names the columns and
\* row 2 holds their values.  pd.read_csv(input, skiprows=[0, 1]): row 3 names
\* the columns and the rows after it are the data.
_create_df(csv) ==
  IF Len(csv) = 0 THEN Raise("EmptyDataError", <<>>)
  ELSE IF Len(csv) = 1 THEN Raise("IndexError", <<>>)
  ELSE IF Len(csv) = 2 THEN Raise("EmptyDataError", <<>>)
  ELSE Return([attrs |-> [k \in Range(csv[1]) |->
                            PyStr(csv[2][CHOOSE i \in 1..Len(csv[1]) : csv[1][i] = k])],
               columns |-> csv[3],
               rows |-> SubSeq(csv, 4, Len(csv))])

RECURSIVE ZipAttrs(_)
\* attrs after the loop of lines 16-21: one entry per file name, each the
\* file's header with the ZipInfo under "filename".
ZipAttrs(zf) ==
  IF Len(zf) = 0 THEN EmptyDict
  ELSE DictUpdate(ZipAttrs(SubSeq(zf, 1, Len(zf) - 1)),
                  [k \in {zf[Len(zf)].filename} |->
                     DictUpdate(_create_df(zf[Len(zf)].csv).val.attrs,
                                [j \in {"filename"} |-> PyStr(zf[Len(zf)].filename)])])

RECURSIVE ZipRows(_)
\* The rows of pd.concat(dfs, ignore_index=True).
ZipRows(zf) ==
  IF Len(zf) = 0 THEN <<>>
  ELSE _create_df(zf[1].csv).val.rows \o ZipRows(Tail(zf))

\* The assembler concatenating the tables last member first.
_process_zip_file_LastFirst(zf) ==
  IF \E i \in 1..Len(zf) : _create_df(zf[i].csv).exc # "none"
  THEN Raise(_create_df(zf[CHOOSE i \in 1..Len(zf) :
                              /\ _create_df(zf[i].csv).exc # "none"
                              /\ \A j \in 1..(i - 1) : _create_df(zf[j].csv).exc = "none"].csv).exc,
             <<>>)
  ELSE IF Len(zf) = 0 THEN Raise("ValueError", <<>>)
  ELSE Return([attrs |-> ZipAttrs(zf),
               rows |-> ZipRows([i \in 1..Len(zf) |-> zf[Len(zf) + 1 - i]])])

\* zf is the archive's filelist, each member [filename, csv].
_process_zip_file(zf) ==
  IF \E i \in 1..Len(zf) : _create_df(zf[i].csv).exc # "none"
  THEN Raise(_create_df(zf[CHOOSE i \in 1..Len(zf) :
                              /\ _create_df(zf[i].csv).exc # "none"
                              /\ \A j \in 1..(i - 1) : _create_df(zf[j].csv).exc = "none"].csv).exc,
             <<>>)
  ELSE IF Len(zf) = 0 THEN Raise("ValueError", <<>>)
  ELSE Return([attrs |-> ZipAttrs(zf), rows |-> ZipRows(zf)])

\* What requests.get(download_url) finds: no connection, a body that is no
\* archive (the file is not generated yet), or an archive.
Fetched(kind, zf) == [kind |-> kind, zf |-> zf]

_process_download_url(got) ==
  IF got.kind = "unreachable" THEN Raise("ConnectionError", <<>>)
  ELSE IF got.kind = "notzip" THEN Raise("BadZipFile", <<>>)
  ELSE _process_zip_file(got.zf)

\* --------------------------------------------------------- response.py

PyDict(d) == [ty |-> "dict", d |-> d]
DataFrame(df) == [ty |-> "DataFrame", df |-> df]

SubmittedText == "{\"outputs\": {\"downloadUrl\": \"https://mapfiles.nrel.gov/data/solar/a1.zip\"}, \"errors\": []}"
QueuedText == "{\"outputs\": {\"message\": \"File generation in progress\"}, \"errors\": []}"
EmptyUrlText == "{\"outputs\": {\"downloadUrl\": \"\"}}"
ErrorsText == "{\"errors\": [\"The required 'names' parameter must be provided\"]}"
ErrorText == "{\"error\": {\"code\": \"API_KEY_INVALID\", \"message\": \"An invalid api_key was supplied.\"}}"
ListText == "[]"
PlainText == "API rate limit exceeded"
CsvText == "Source,Location ID\nNSRDB,878737\nYear,GHI\n2019,0\n2019,12\n"

\* json.loads on the documents the model's server sends.
JsonLoads(text) ==
  IF text = SubmittedText
  THEN Return(PyDict([outputs |-> PyDict([downloadUrl |->
                        PyStr("https://mapfiles.nrel.gov/data/solar/a1.zip")]),
                      errors |-> PyList(<<>>)]))
  ELSE IF text = QueuedText
  THEN Return(PyDict([outputs |-> PyDict([message |-> PyStr("File generation in progress")]),
                      errors |-> PyList(<<>>)]))
  ELSE IF text = EmptyUrlText
  THEN Return(PyDict([outputs |-> PyDict([downloadUrl |-> PyStr("")])]))
  ELSE IF text = ErrorsText
  THEN Return(PyDict([errors |->
                 PyList(<<PyStr("The required 'names' parameter must be provided")>>)]))
  ELSE IF text = ErrorText
  THEN Return(PyDict([error |-> PyDict([code |-> PyStr("API_KEY_INVALID"),
                        message |-> PyStr("An invalid api_key was supplied.")])]))
  ELSE IF text = ListText THEN Return(PyList(<<>>))
  ELSE Raise("JSONDecodeError", PyNone)

\* The rows io.StringIO(text) gives the CSV reader.
CsvRows(text) ==
  IF text = CsvText
  THEN <<<<"Source", "Location ID">>, <<"NSRDB", "878737">>, <<"Year", "GHI">>,
         <<"2019", "0">>, <<"2019", "12">>>>
  ELSE IF text = PlainText THEN <<<<"API rate limit exceeded">>>>
  ELSE <<<<text>>>>

\* The test "v is not None" in place of bool(v).
Truthy_NotNone(v) == v.ty # "none"

\* bool(v)
Truthy(v) ==
  IF v.ty = "str" THEN v.s # ""
  ELSE IF v.ty \in {"int", "bool"} THEN v.n # 0
  ELSE IF v.ty = "none" THEN FALSE
  ELSE IF v.ty = "list" THEN Len(v.items) > 0
  ELSE IF v.ty = "dict" THEN DOMAIN v.d # {}
  ELSE TRUE

\* Lines 37-38: the submission and whether it names a download URL.  val is
\* [data, poll].
Submission(text) ==
  IF JsonLoads(text).exc # "none" THEN Raise("JSONDecodeError", PyNone)
  ELSE IF JsonLoads(text).val.ty # "dict" THEN Raise("TypeError", PyNone)
  ELSE IF "outputs" \notin DOMAIN JsonLoads(text).val.d THEN Raise("KeyError", PyNone)
  ELSE IF JsonLoads(text).val.d["outputs"].ty # "dict" THEN Raise("AttributeError", PyNone)
  ELSE Return([data |-> JsonLoads(text).val,
               poll |-> /\ "downloadUrl" \in DOMAIN JsonLoads(text).val.d["outputs"].d
                        /\ Truthy(JsonLoads(text).val.d["outputs"].d["downloadUrl"])])

\* The error branch returning the text whatever the body is.
ErrorBody_TextOnly(text) == PyStr(text)

\* Lines 56-63: the body as JSON when it parses, the text otherwise.
ErrorBody(text) ==
  IF JsonLoads(text).exc = "none" THEN JsonLoads(text).val ELSE PyStr(text)

InfoSubmitted == [level |-> "INFO", msg |-> "NSRDB request successfully submitted. File generation in progress."]
WarnError == [level |-> "WARNING", msg |-> "NSRDB request returned an error."]

\* ------------------------------------------------------------ the state

VARIABLES
  file,           \* the credential file ~/.pyNSRDB
  pc,             \* where the current call stands
  call,           \* the function called and its arguments
  ret,            \* the call's outcome once pc is "done" or "raised"
  query_params,   \* PSM_*: the assembled query parameters
  base_url,       \* the URL _parse_base_url selected
  sent,           \* HTTP GETs issued to the API endpoint
  response,       \* the response to that GET
  timeout,        \* the timeout argument
  response_data,  \* _process_response: response_data
  start,          \* _process_response: start
  elapsed_time,   \* _process_response: elapsed_time
  now,            \* time.perf_counter()
  log,            \* the records logged
  attempts,       \* download attempts made
  successes,      \* download attempts that returned a table
  afterOk,        \* download attempts started after one had succeeded
  late,           \* download attempts started at or after start + timeout
  slept           \* seconds spent in time.sleep

reqVars == <<query_params, base_url, sent>>
respVars == <<response, response_data, start, elapsed_time, now, log>>
pollCounters == <<attempts, successes, afterOk, late, slept>>
vars == <<file, pc, call, ret, query_params, base_url, sent, response, timeout,
          response_data, start, elapsed_time, now, log, attempts, successes,
          afterOk, late, slept>>

\* ----------------------------------------------------------- the inputs

\* Longest list passed to _parse_inputs.
MaxListLen == 2

Files ==
  {NoFile,
   FileOf(<<<<"API_KEY", "Y">>>>),
   FileOf(<<<<"FULL_NAME", "N">>>>),
   FileOf(<<<<"api_key", "Y">>, <<"EMAIL", "e@x.org">>, <<"WKT", "POINT (0 0)">>>>)}

Cred(api_key, full_name, mailing_list) ==
  [api_key |-> api_key, full_name |-> full_name, email |-> PyNone,
   affiliation |-> PyNone, reason |-> PyNone, mailing_list |-> mailing_list]

Creds ==
  {Cred(k, n, m) : k \in {PyNone, PyStr("X")}, n \in {PyNone, PyStr("N")},
                   m \in {PyNone, PyBool(TRUE)}}

Locations ==
  {[ty |-> "tuple", pts |-> <<-93, 45>>],
   [ty |-> "Point", pts |-> <<<<-93, 45>>>>],
   [ty |-> "MultiPoint", pts |-> <<<<-90, 45>>, <<-88, 43>>>>],
   [ty |-> "Polygon", pts |-> <<<<0, 0>>, <<1, 0>>, <<1, 1>>, <<0, 0>>>>],
   [ty |-> "str", pts |-> <<>>]}

NameStrings == {"tmy", "tdy-2017", "2019", "NotReal"}
NameItems == {PyStr(x) : x \in NameStrings} \cup {PyInt(2019)}

SeqsUpTo(S, n) == UNION {[1..k -> S] : k \in 0..n}

\* Bare strings, comma-delimited strings (with and without blanks after the
\* commas), integers and lists, with repeated entries.
NamesInputs ==
  {PyStr(x) : x \in NameStrings \cup {"", " tmy"}}
  \cup {PyInt(2019), PyInt(1997)}
  \cup {PyList(xs) : xs \in SeqsUpTo(NameItems, MaxListLen)}
  \cup {PyStr(Join(xs)) : xs \in SeqsUpTo(NameStrings, MaxListLen + 1) \ SeqsUpTo(NameStrings, 1)}
  \cup {PyStr(Join([i \in 1..Len(xs) |-> " " \o xs[i]])) :
          xs \in SeqsUpTo(NameStrings, MaxListLen) \ SeqsUpTo(NameStrings, 1)}

AllowLists ==
  {PyNone, StrList(TMY_NAMES), StrList(Years(2018, 2020)), StrList(<<"tmy", "NotReal">>)}

Wkts ==
  {GeomWkt(g) : g \in {l \in Locations : l.ty \in {"Point", "MultiPoint", "Polygon"}}}
  \cup {"", "POIN", "POINT", "POINT EMPTY"}

NormalizedNames == {"tmy", "2019", "", "2018,2019", "tmy,tdy-2017,tmy-2018"}

BaseUrls ==
  {Endpoint(f).URL \o sfx : f \in RequestFunctions, sfx \in {".csv", ".json"}}

Responses ==
  {[status_code |-> c, text |-> t] :
     c \in {200, 201, 400},
     t \in {SubmittedText, QueuedText, EmptyUrlText, ErrorsText, ErrorText, ListText,
            PlainText, CsvText}}

NamesArgs(f) ==
  IF f = "PSM_TMY_request"
  THEN {PyStr("tmy"), PyStr("tmy, tdy-2017"), PyStr("NotReal")}
  ELSE {PyNone, PyStr("2018,2019"), PyStr("NotReal")}

RequestArgs(f) ==
  {[location |-> l, attributes |-> a, names |-> n, utc |-> u, leap_day |-> FALSE,
    interval |-> IF f = "PSM_request" THEN 60 ELSE 5, cred |-> c, timeout |-> t] :
     l \in Locations \ {[ty |-> "Point", pts |-> <<<<-93, 45>>>>]},
     a \in {PyNone, PyStr("dhi, zenith")}, n \in NamesArgs(f), u \in BOOLEAN,
     c \in {Cred(PyNone, PyNone, PyNone), Cred(PyStr("X"), PyNone, PyBool(TRUE))},
     t \in {MaxTimeout}}

ZipMember(name) == [filename |-> name, csv |-> CsvRows(CsvText)]

\* What a download attempt can find at the download URL.
Fetches ==
  {Fetched("unreachable", <<>>), Fetched("notzip", <<>>), Fetched("zip", <<>>),
   Fetched("zip", <<ZipMember("a.csv"), ZipMember("b.csv")>>),
   Fetched("zip", <<ZipMember("a.csv"), [filename |-> "b.csv", csv |-> <<>>]>>)}

\* Most members of an archive passed to _process_zip_file.
MaxMembers == 3

\* CSV payloads with one data row and with none.
CsvOneRow ==
  <<<<"Source", "Location ID">>, <<"NSRDB", "878738">>, <<"Year", "GHI">>, <<"2018", "7">>>>
CsvNoRows ==
  <<<<"Source", "Location ID">>, <<"NSRDB", "878739">>, <<"Year", "GHI">>>>

\* Archives of up to MaxMembers members: a member's payload has two data rows,
\* one, none, or is empty; two members can carry the same name.
ZipArchives ==
  SeqsUpTo({[filename |-> f, csv |-> c] :
              f \in {"a.csv", "b.csv", "c.csv"},
              c \in {CsvRows(CsvText), CsvOneRow, CsvNoRows, <<>>}}, MaxMembers)

\* ------------------------------------------------------------ the actions

Init ==
  /\ file \in Files
  /\ pc = "idle"
  /\ call = [fn |-> "none"]
  /\ ret = Return(PyNone)
  /\ query_params = EmptyDict
  /\ base_url = ""
  /\ sent = 0
  /\ response = [status_code |-> 0, text |-> ""]
  /\ timeout = 0
  /\ response_data = PyNone
  /\ start = 0
  /\ elapsed_time = 0
  /\ now = 0
  /\ log = <<>>
  /\ attempts = 0
  /\ successes = 0
  /\ afterOk = 0
  /\ late = 0
  /\ slept = 0

\* The call ends: it returns o.val or raises o.exc.
Finish(o) ==
  /\ ret' = o
  /\ pc' = IF o.exc = "none" THEN "done" ELSE "raised"

\* _parse_inputs(names, allowed_names) called on its own.
Call_parse_inputs ==
  /\ pc = "idle"
  /\ \E names \in NamesInputs, allowed_names \in AllowLists :
       /\ call' = [fn |-> "_parse_inputs", names |-> names, allowed_names |-> allowed_names]
       /\ \E o \in _parse_inputs(names, allowed_names) : Finish(o)
  /\ UNCHANGED <<file, reqVars, respVars, timeout, pollCounters>>

\* _parse_base_url(url, wkt, names) called on its own.
Call_parse_base_url ==
  /\ pc = "idle"
  /\ \E f \in RequestFunctions, wkt \in Wkts, names \in NormalizedNames :
       /\ call' = [fn |-> "_parse_base_url", url |-> Endpoint(f).URL, wkt |-> wkt,
                   names |-> names]
       /\ Finish(Return(_parse_base_url(Endpoint(f).URL, wkt, names)))
  /\ UNCHANGED <<file, reqVars, respVars, timeout, pollCounters>>

\* _get_user_credentials(...) called on its own.
Call_get_user_credentials ==
  /\ pc = "idle"
  /\ \E cred \in Creds :
       /\ call' = [fn |-> "_get_user_credentials", cred |-> cred]
       /\ Finish(_get_user_credentials(file, cred))
  /\ UNCHANGED <<file, reqVars, respVars, timeout, pollCounters>>

\* _process_zip_file(zf) called on its own.
Call_process_zip_file ==
  /\ pc = "idle"
  /\ \E zf \in ZipArchives :
       /\ call' = [fn |-> "_process_zip_file", zf |-> zf]
       /\ Finish(_process_zip_file(zf))
  /\ UNCHANGED <<file, reqVars, respVars, timeout, pollCounters>>

\* PSM_request, PSM_TMY_request or PSM_temporal_request up to its HTTP GET.
Call_request ==
  /\ pc = "idle"
  /\ \E f \in RequestFunctions :
       \E a \in RequestArgs(f) :
         \E o \in Prepare(f, file, a) :
           /\ call' = [fn |-> f, args |-> a]
           /\ timeout' = a.timeout
           /\ query_params' = o.val.query_params
           /\ base_url' = o.val.base_url
           /\ IF o.exc = "none"
              THEN pc' = "get" /\ UNCHANGED ret
              ELSE Finish(Raise(o.exc, PyNone))
  /\ UNCHANGED <<file, sent, respVars, pollCounters>>

\* requests.get(base_url, params=query_params) returns a response.
HttpGet ==
  /\ pc = "get"
  /\ sent' = sent + 1
  /\ \E r \in Responses : response' = r
  /\ pc' = "process"
  /\ UNCHANGED <<file, call, ret, query_params, base_url, timeout, response_data, start,
                 elapsed_time, now, log, pollCounters>>

\* requests.get raises: the exception leaves the request function.
HttpGetFails ==
  /\ pc = "get"
  /\ sent' = sent + 1
  /\ Finish(Raise("ConnectionError", PyNone))
  /\ UNCHANGED <<file, call, query_params, base_url, timeout, respVars, pollCounters>>

\* _process_response(response, base_url, timeout) called on its own.
Call_process_response ==
  /\ pc = "idle"
  /\ call' = [fn |-> "_process_response"]
  /\ \E r \in Responses : response' = r
  /\ \E u \in BaseUrls : base_url' = u
  /\ \E t \in 0..MaxTimeout : timeout' = t
  /\ pc' = "process"
  /\ UNCHANGED <<file, ret, query_params, sent, response_data, start, elapsed_time, now,
                 log, pollCounters>>

\* response.py lines 56-63: any status but 200.
ProcessError ==
  /\ pc = "process"
  /\ response.status_code # 200
  /\ log' = Append(log, WarnError)
  /\ Finish(Return(ErrorBody(response.text)))
  /\ UNCHANGED <<file, call, reqVars, response, timeout, response_data, start,
                 elapsed_time, now, pollCounters>>

\* response.py lines 48-55: status 200 from a URL without "json" in it.
ProcessCsv ==
  /\ pc = "process"
  /\ response.status_code = 200
  /\ ~Contains(base_url, "json")
  /\ IF _create_df(CsvRows(response.text)).exc = "none"
     THEN /\ response_data' = DataFrame(_create_df(CsvRows(response.text)).val)
          /\ Finish(Return(response_data'))
     ELSE /\ Finish(Raise(_create_df(CsvRows(response.text)).exc, PyNone))
          /\ UNCHANGED response_data
  /\ UNCHANGED <<file, call, reqVars, response, timeout, start, elapsed_time, now, log,
                 pollCounters>>

\* response.py lines 32-41 and 52-55: status 200 from a URL with "json" in it.
\* The submission is parsed; with a download URL the poll loop is entered, and
\* without one the submission is returned.
ProcessSubmission ==
  /\ pc = "process"
  /\ response.status_code = 200
  /\ Contains(base_url, "json")
  /\ log' = Append(log, InfoSubmitted)
  /\ IF Submission(response.text).exc # "none"
     THEN /\ Finish(Raise(Submission(response.text).exc, PyNone))
          /\ UNCHANGED <<response_data, start, elapsed_time>>
     ELSE /\ response_data' = Submission(response.text).val.data
          /\ IF Submission(response.text).val.poll
             THEN /\ start' = now
                  /\ elapsed_time' = 0
                  /\ pc' = "loop"
                  /\ UNCHANGED ret
             ELSE /\ Finish(Return(response_data'))
                  /\ UNCHANGED <<start, elapsed_time>>
  /\ UNCHANGED <<file, call, reqVars, response, timeout, now, pollCounters>>

\* Line 42: while elapsed_time < timeout.
LoopTest == elapsed_time < timeout

\* The elapsed time read before the sleep instead of after it.
Elapsed_BeforeSleep(t) == t - PollInterval - start

\* Line 47: elapsed_time after the sleep, at time t.
Elapsed(t) == t - start

\* One download attempt begins at the time `now`.
Attempt ==
  /\ pc = "loop"
  /\ LoopTest
  /\ attempts < MaxFetches
  /\ attempts' = attempts + 1
  /\ afterOk' = afterOk + (IF successes > 0 THEN 1 ELSE 0)
  /\ late' = late + (IF now - start >= timeout THEN 1 ELSE 0)

\* Lines 42-44: the attempt returns the table; the loop goes on.
PollSuccess ==
  /\ Attempt
  /\ \E got \in Fetches, d \in 0..MaxFetchSecs :
       /\ _process_download_url(got).exc = "none"
       /\ response_data' = DataFrame(_process_download_url(got).val)
       /\ now' = now + d
  /\ successes' = successes + 1
  /\ UNCHANGED <<file, pc, call, ret, reqVars, response, timeout, start, elapsed_time,
                 log, slept>>

\* The loop without its try/except: a failed attempt's exception leaves the call.
PollFailure_Propagates ==
  /\ Attempt
  /\ \E got \in Fetches :
       /\ _process_download_url(got).exc # "none"
       /\ Finish(Raise(_process_download_url(got).exc, PyNone))
  /\ UNCHANGED <<file, call, reqVars, respVars, timeout, successes, slept>>

\* Lines 45-47: the attempt raises; the loop sleeps and measures the time.
PollFailure ==
  /\ Attempt
  /\ \E got \in Fetches, d \in 0..MaxFetchSecs :
       /\ _process_download_url(got).exc # "none"
       /\ now' = now + d + PollInterval
  /\ slept' = slept + PollInterval
  /\ elapsed_time' = Elapsed(now')
  /\ UNCHANGED <<file, pc, call, ret, reqVars, response, timeout, response_data, start,
                 log, successes>>

\* Lines 42 and 52-55: the loop ends and response_data is returned.
PollExit ==
  /\ pc = "loop"
  /\ ~LoopTest
  /\ Finish(Return(response_data))
  /\ UNCHANGED <<file, call, reqVars, respVars, timeout, pollCounters>>

Next ==
  \/ Call_parse_inputs
  \/ Call_parse_base_url
  \/ Call_get_user_credentials
  \/ Call_process_zip_file
  \/ Call_request
  \/ HttpGet
  \/ HttpGetFails
  \/ Call_process_response
  \/ ProcessError
  \/ ProcessCsv
  \/ ProcessSubmission
  \/ PollSuccess
  \/ PollFailure
  \/ PollExit

Spec == Init /\ [][Next]_vars

\* ------------------------------------------------------------ the claims

Finished == pc \in {"done", "raised"}

\* The call runs _process_response, directly or inside a request function.
HandlesResponse == call.fn \in RequestFunctions \cup {"_process_response"}

\* _process_response has looked at the response.
Processed == HandlesResponse /\ response.status_code # 0 /\ pc \in {"loop", "done", "raised"}

\* The response is a 200 from a .json URL whose body has a non-empty
\* outputs.downloadUrl: the poll loop is entered.
Polled ==
  /\ Processed
  /\ response.status_code = 200
  /\ Contains(base_url, ".json")
  /\ response.text = SubmittedText

\* C1: in the poll loop the first download attempt that succeeds ends the
\* polling: no attempt is started after an attempt has succeeded.
C1_FirstSuccessResolves == Polled => afterOk = 0

\* C2: _parse_base_url, given a wkt that starts with "POINT" and a names string
\* of exactly one comma-separated entry, returns the base URL with ".csv".
C2_PointSingleNameSelectsCsv ==
  (/\ call.fn = "_parse_base_url"
   /\ Finished
   /\ Prefix(call.wkt, 5) = "POINT"
   /\ Len(Split(call.names)) = 1)
  => (pc = "done" /\ ret.val = call.url \o ".csv")

\* The selector's asynchronous case: the wkt does not start with "POINT" or the
\* names string has two or more entries.
AsyncCase(wkt, names) == Prefix(wkt, 5) # "POINT" \/ Len(Split(names)) >= 2

\* C3: whenever the wkt does not start with "POINT" or the normalized names
\* have two or more entries, _parse_base_url returns the base URL with ".json",
\* in a direct call and inside the request functions, where a 200 response is
\* then handled as a file-generation submission (the submission is logged and
\* the body is not read as CSV).
C3_OtherShapesSelectJson ==
  /\ (call.fn = "_parse_base_url" /\ Finished /\ AsyncCase(call.wkt, call.names))
       => (pc = "done" /\ ret.val = call.url \o ".json")
  /\ (/\ call.fn \in RequestFunctions
      /\ pc \in {"get", "process", "loop", "done"}
      /\ AsyncCase(query_params["wkt"].s, query_params["names"].s))
       => base_url = Endpoint(call.fn).URL \o ".json"
  /\ (/\ call.fn \in RequestFunctions
      /\ Processed
      /\ response.status_code = 200
      /\ AsyncCase(query_params["wkt"].s, query_params["names"].s))
       => (log = <<InfoSubmitted>> /\ (pc = "done" => ret.val.ty # "DataFrame" \/ attempts > 0))

C3_Witness ==
  /\ call.fn = "PSM_TMY_request"
  /\ pc = "loop"
  /\ call.args.location.ty = "Polygon"
  /\ Prefix(query_params["wkt"].s, 7) = "POLYGON"
  /\ query_params["names"].s = "tmy"
  /\ base_url = "https://developer.nrel.gov/api/nsrdb/v2/solar/psm3-tmy-download.json"
  /\ response.status_code = 200
  /\ log = <<InfoSubmitted>>

\* C4: with no credential file, _get_user_credentials called with api_key "X"
\* and no other field returns exactly {api_key: "X"}.
C4_ExplicitKeyNoFile ==
  (/\ call.fn = "_get_user_credentials"
   /\ Finished
   /\ ~file.exists
   /\ call.cred = Cred(PyStr("X"), PyNone, PyNone))
  => (pc = "done" /\ ret.val = [k \in {"api_key"} |-> PyStr("X")])

\* C5: when the poll loop is entered and no download attempt succeeds, the call
\* never raises, and once it has ended it has returned the submission parsed
\* from the original response.
C5_ExpiredReturnsSubmission ==
  (Polled /\ successes = 0)
  => /\ pc # "raised"
     /\ pc = "done" => (ret.val = JsonLoads(SubmittedText).val /\ ~LoopTest)

C5_Witness ==
  /\ Polled
  /\ pc = "done"
  /\ successes = 0
  /\ attempts = 2
  /\ ret.val.d["outputs"].d["downloadUrl"].s = "https://mapfiles.nrel.gov/data/solar/a1.zip"

\* C6: while no download attempt has succeeded, every failed attempt has been
\* followed by one sleep of PollInterval seconds, the elapsed time is the time
\* since loop entry, no attempt has started at or after start + timeout, and
\* when the loop has ended the time slept is at most timeout + PollInterval.
C6_TimeoutBound ==
  (Polled /\ successes = 0)
  => /\ slept = PollInterval * attempts
     /\ attempts > 0 => elapsed_time = now - start
     /\ late = 0
     /\ pc = "done" => slept <= timeout + PollInterval

C6_Witness ==
  /\ Polled
  /\ pc = "done"
  /\ successes = 0
  /\ timeout = 6
  /\ attempts = 2
  /\ slept = 10

\* C7: a 200 response from a .json URL whose body is an error document without
\* an `outputs` key is returned as that dictionary, without raising.
C7_LogicalRejectionReturned ==
  (/\ Processed
   /\ response.status_code = 200
   /\ Contains(base_url, ".json")
   /\ response.text \in {ErrorsText, ErrorText})
  => (pc = "done" /\ ret.val = JsonLoads(response.text).val)

\* C8: for a response whose status is not 2xx, _process_response logs the
\* warning, makes no download attempt and no sleep, never raises, and returns
\* the parsed body when the body is JSON and the raw text otherwise.
C8_ErrorStatusReturnedAsData ==
  (Processed /\ response.status_code \notin 200..299)
  => /\ pc = "done"
     /\ log = <<WarnError>>
     /\ attempts = 0 /\ slept = 0
     /\ JsonLoads(response.text).exc = "none" => ret.val = JsonLoads(response.text).val
     /\ JsonLoads(response.text).exc # "none" => ret.val = PyStr(response.text)

C8_Witness ==
  /\ call.fn = "PSM_TMY_request"
  /\ Processed
  /\ response.status_code = 400
  /\ response.text = ErrorsText
  /\ ret.val.ty = "dict"
  /\ "errors" \in DOMAIN ret.val.d

\* C9: the query parameters assembled for a request function contain the key
\* "utc" with the value "true" or "false" after the caller's flag, and no value
\* is a native boolean.
C9_UtcKeyPresent ==
  (call.fn \in RequestFunctions /\ pc = "get")
  => /\ "utc" \in DOMAIN query_params
     /\ query_params["utc"] = PyStr(IF call.args.utc THEN "true" ELSE "false")
     /\ \A k \in DOMAIN query_params : query_params[k].ty # "bool"

\* The entries of a comma-joined output ("" has none).
OutputEntries(s) == IF s = "" THEN <<>> ELSE Split(s)

\* The entries of a string or list-of-strings input: a string with commas is
\* split and trimmed, a bare string is one entry.
InputEntries(names) ==
  IF names.ty = "list" THEN {names.items[i].s : i \in 1..Len(names.items)}
  ELSE IF Contains(names.s, ",") THEN {Strip(Split(names.s)[i]) : i \in 1..Len(Split(names.s))}
  ELSE {names.s}

StringShaped(names) ==
  \/ names.ty = "str"
  \/ names.ty = "list" /\ \A i \in 1..Len(names.items) : names.items[i].ty = "str"

Occurrences(x, xs) == Cardinality({i \in 1..Len(xs) : xs[i] = x})

\* C10: _parse_inputs with an allow list, on a string or a sequence of strings,
\* returns without raising a comma-joined string with no entry outside the
\* allow list, in which every entry of the input that is in the allow list
\* occurs exactly once.
C10_IntersectionOnce ==
  (/\ call.fn = "_parse_inputs"
   /\ Finished
   /\ call.allowed_names.ty = "list"
   /\ StringShaped(call.names))
  => /\ pc = "done"
     /\ \A i \in 1..Len(OutputEntries(ret.val)) :
          PyStr(OutputEntries(ret.val)[i]) \in Range(call.allowed_names.items)
     /\ \A x \in InputEntries(call.names) :
          PyStr(x) \in Range(call.allowed_names.items)
            => Occurrences(x, OutputEntries(ret.val)) = 1

C10_Witness ==
  /\ call.fn = "_parse_inputs"
  /\ pc = "done"
  /\ call.names = PyStr("tmy,NotReal,tmy")
  /\ call.allowed_names = StrList(TMY_NAMES)
  /\ ret.val = "tmy"

\* The entries of an input of strings and integers, every integer as its
\* decimal string.
DecimalEntries(names) ==
  IF names.ty = "int" THEN <<IntStr(names.n)>>
  ELSE [i \in 1..Len(names.items) |->
          IF names.items[i].ty = "int" THEN IntStr(names.items[i].n) ELSE names.items[i].s]

HasInteger(names) ==
  \/ names.ty = "int"
  \/ names.ty = "list" /\ \E i \in 1..Len(names.items) : names.items[i].ty = "int"

\* C11: _parse_inputs coerces integers to their decimal strings, a bare integer
\* and the integer elements of a sequence alike: the call returns; with an
\* allow list the output holds the decimal string of every integer of the input
\* whose decimal string is allowed, and with no allow list the output is the
\* comma-join of the entries' decimal strings.
C11_IntegersCoerced ==
  (/\ call.fn = "_parse_inputs"
   /\ Finished
   /\ HasInteger(call.names))
  => /\ pc = "done"
     /\ call.allowed_names.ty = "list" =>
          \A i \in 1..Len(DecimalEntries(call.names)) :
            PyStr(DecimalEntries(call.names)[i]) \in Range(call.allowed_names.items)
              => DecimalEntries(call.names)[i] \in Range(OutputEntries(ret.val))
     /\ call.allowed_names.ty = "none" => ret.val = Join(DecimalEntries(call.names))

\* The call resolves credentials: _get_user_credentials on its own.
ResolvesCredentials == call.fn = "_get_user_credentials" /\ Finished

\* The credential file's keys, lower-cased.
FileKeys == {Lower(file.entries[i][1]) : i \in 1..Len(file.entries)}

InvalidLocation(location) ==
  location.ty \notin {"tuple", "list", "Point", "MultiPoint", "Polygon"}

\* An api_key can be resolved: the file holds one, or there is no file and one
\* is given as an argument.
Resolvable(cred) ==
  IF file.exists THEN "api_key" \in FileKeys ELSE cred.api_key # PyNone

\* The error an unresolvable credential ends in.
CredentialError == IF file.exists THEN "ValueError" ELSE "FileNotFoundError"

\* C14: in the three request functions a call with an invalid location raises
\* ValueError and a call with an unresolvable credential raises the
\* credential's error, in both cases before any HTTP GET is issued; a call
\* that has ended in such an error has sent no request.
C14_FailFastBeforeGet ==
  call.fn \in RequestFunctions
  => /\ (InvalidLocation(call.args.location) /\ Resolvable(call.args.cred))
          => (pc = "raised" /\ ret.exc = "ValueError" /\ sent = 0)
     /\ ~Resolvable(call.args.cred)
          => (pc = "raised" /\ ret.exc = CredentialError /\ sent = 0)
     /\ (pc = "raised" /\ ret.exc \in {"ValueError", "FileNotFoundError"}) => sent = 0

\* The data rows of a CSV source: the rows after the two header rows and the
\* row of column names.
DataRows(csv) == SubSeq(csv, 4, Len(csv))

RECURSIVE RowsBefore(_, _)
\* The data rows of the members before member i.
RowsBefore(zf, i) ==
  IF i <= 1 THEN 0 ELSE RowsBefore(zf, i - 1) + Len(DataRows(zf[i - 1].csv))

\* The archive has at least one member, its members are CSV sources (two
\* header rows and the row of column names), and their names are distinct.
CsvSources(zf) ==
  /\ Len(zf) >= 1
  /\ \A i \in 1..Len(zf) : Len(zf[i].csv) >= 3
  /\ \A i, j \in 1..Len(zf) : zf[i].filename = zf[j].filename => i = j

\* C15: _process_zip_file on an archive of one or more CSV sources with
\* distinct names returns a table whose rows are the sources' data rows in
\* archive order and, within a source, in file order (as many rows as the
\* sources have together), and whose metadata has exactly one entry per source
\* name, holding every field of that source's header.
C15_RowsInSourceOrder ==
  (call.fn = "_process_zip_file" /\ Finished /\ CsvSources(call.zf))
  => /\ pc = "done"
     /\ Len(ret.val.rows) = RowsBefore(call.zf, Len(call.zf) + 1)
     /\ \A i \in 1..Len(call.zf) :
          \A j \in 1..Len(DataRows(call.zf[i].csv)) :
            ret.val.rows[RowsBefore(call.zf, i) + j] = DataRows(call.zf[i].csv)[j]
     /\ DOMAIN ret.val.attrs = {call.zf[i].filename : i \in 1..Len(call.zf)}
     /\ Cardinality(DOMAIN ret.val.attrs) = Len(call.zf)
     /\ \A i \in 1..Len(call.zf) :
          \A c \in 1..Len(call.zf[i].csv[1]) :
            ret.val.attrs[call.zf[i].filename][call.zf[i].csv[1][c]] = PyStr(call.zf[i].csv[2][c])

C15_Witness ==
  /\ call.fn = "_process_zip_file"
  /\ pc = "done"
  /\ call.zf = <<[filename |-> "a.csv", csv |-> CsvRows(CsvText)],
                 [filename |-> "b.csv", csv |-> CsvRows(CsvText)]>>
  /\ Len(ret.val.rows) = 2 * Len(DataRows(CsvRows(CsvText)))
  /\ ret.val.rows = <<<<"2019", "0">>, <<"2019", "12">>, <<"2019", "0">>, <<"2019", "12">>>>
  /\ Cardinality(DOMAIN ret.val.attrs) = 2
  /\ ret.val.attrs["b.csv"]["Location ID"] = PyStr("878737")

\* The body is a JSON object whose `outputs` is an object with no downloadUrl
\* or an empty one.
NoDownloadUrl(text) ==
  /\ JsonLoads(text).exc = "none"
  /\ JsonLoads(text).val.ty = "dict"
  /\ "outputs" \in DOMAIN JsonLoads(text).val.d
  /\ JsonLoads(text).val.d["outputs"].ty = "dict"
  /\ \/ "downloadUrl" \notin DOMAIN JsonLoads(text).val.d["outputs"].d
     \/ JsonLoads(text).val.d["outputs"].d["downloadUrl"] = PyStr("")

\* C16: for a 200 response from a .json URL whose body has an `outputs` object
\* with no downloadUrl or an empty one, _process_response makes no download
\* attempt and no sleep, and returns the parsed submission unchanged without
\* raising.
C16_NoUrlReturnsSubmission ==
  (/\ Processed
   /\ response.status_code = 200
   /\ Contains(base_url, ".json")
   /\ NoDownloadUrl(response.text))
  => /\ pc = "done"
     /\ ret.val = JsonLoads(response.text).val
     /\ attempts = 0 /\ slept = 0

C16_Witness ==
  /\ call.fn = "PSM_temporal_request"
  /\ Processed
  /\ response.status_code = 200
  /\ base_url = "https://developer.nrel.gov/api/nsrdb/v2/solar/psm3-5min-download.json"
  /\ response.text = EmptyUrlText
  /\ pc = "done"
  /\ ret.val.d["outputs"].d["downloadUrl"] = PyStr("")

\* The keys a request function derives from its caller's arguments.
CallerKeys == {"wkt", "attributes", "names", "leap_day", "interval"}

\* C17: in the query parameters a request function assembles, whatever the
\* credential file holds, `wkt` is the WKT of the caller's location,
\* `attributes` is present exactly when the caller gave attributes and is then
\* an output of _parse_inputs on them, and every other key that is not derived
\* from the caller's arguments is one of the six credential fields.
C17_FileCannotReplaceCallerParams ==
  (call.fn \in RequestFunctions /\ pc = "get")
  => /\ query_params["wkt"] = PyStr(_parse_query_location(call.args.location).val)
     /\ "attributes" \in DOMAIN query_params <=> call.args.attributes # PyNone
     /\ "attributes" \in DOMAIN query_params =>
          \E a \in _parse_inputs(call.args.attributes, Endpoint(call.fn).ALLOWED_ATTRIBUTES) :
            query_params["attributes"] = PyStr(a.val)
     /\ DOMAIN query_params \subseteq CallerKeys \cup CredentialFields

====
